---- MODULE Spec2Model ----
(***************************************************************************)
(* Model of the OAuth endpoint resolver (resolveEndpoint / probeUrl), of  *)
(* the /api/games fallback chain, of the lookup routes and of the session  *)
(* routes (/auth, /auth/callback, /auth/logout, /api/me) of the RLBX       *)
(* proxy server.                                                           *)
(*                                                                         *)
(* The resolver is modelled with several resolveEndpoint calls in flight   *)
(* at once: Node runs each call up to its next await atomically, so one    *)
(* action is one such run (call start, HEAD response, GET response).       *)
(***************************************************************************)
EXTENDS Integers, Sequences, FiniteSets, TLC

\* ------------------------------------------------------------------------
\* Bounds
\* ------------------------------------------------------------------------
\* number of resolveEndpoint calls that may be in flight at once
MaxCalls == 2
\* number of resolveEndpoint calls made in one run
MaxStarts == 3
\* longest raw query string of an /api/games request
MaxQLen == 2
\* longest upstream data array
MaxItems == 2

\* ------------------------------------------------------------------------
\* Values
\* ------------------------------------------------------------------------
\* JavaScript's undefined (an unset env variable, a missing object key)
Undefined == "undefined"

\* truthiness of a URL-or-undefined value (URLs are non-empty strings)
Truthy(v) == v # Undefined

\* ------------------------------------------------------------------------
\* Configuration
\* ------------------------------------------------------------------------
ENDPOINT_CANDIDATES ==
  [ authorize |-> << "https://authorize.roblox.com/oauth/authorize",
                     "https://www.roblox.com/oauth/authorize",
                     "https://apis.roblox.com/oauth/v1/authorize" >>,
    token     |-> << "https://authorize.roblox.com/oauth/token",
                     "https://www.roblox.com/oauth/token",
                     "https://apis.roblox.com/oauth/v1/token" >>,
    userinfo  |-> << "https://authorize.roblox.com/oauth/v1/userinfo",
                     "https://www.roblox.com/oauth/userinfo",
                     "https://apis.roblox.com/oauth/v1/userinfo" >> ]

\* the three operations the server resolves
Ops == DOMAIN ENDPOINT_CANDIDATES

\* a name that is no key of ENDPOINT_CANDIDATES
UnknownName == "games-search"

\* the names resolveEndpoint is applied to
Names == Ops \cup {UnknownName}

EnvKeys == {"OAUTH_AUTHORIZE_URL", "OAUTH_TOKEN_URL", "OAUTH_USERINFO_URL"}

\* the value an operator may give to each override variable
OverrideUrl ==
  [ OAUTH_AUTHORIZE_URL |-> "https://override.example/authorize",
    OAUTH_TOKEN_URL     |-> "https://override.example/token",
    OAUTH_USERINFO_URL  |-> "https://override.example/userinfo" ]

\* a fetch either rejects (network error, abort on timeout) or answers
\* with a status code
NetworkError == "network_error"
Reachable    == "status_lt_500"
ServerError  == "status_ge_500"
FetchOutcomes == {NetworkError, Reachable, ServerError}

VARIABLES
  env,          \* process.env restricted to the three override keys
  resolved,     \* the resolution cache: name -> URL or undefined
  call,         \* the resolveEndpoint calls: for each, the candidates it
                \* has probed, the requests sent to the current candidate
                \* and the verdicts probeUrl gave
  firstReturn,  \* history: the first URL any call returned for a name
  started,      \* history: number of resolveEndpoint calls made so far
  req,          \* the /api/games request being handled
  look,         \* the lookup request being handled (game, user, me)
  net,          \* the upstream call the lookup handler awaits
  probe,        \* the probeUrl call being made
  sess,         \* the session of one browser: req.session
  hand          \* the /auth, /auth/callback or /api/me request of that
                \* session being handled

rvars == << env, resolved, call, firstReturn, started >>
lvars == << look, net >>
avars == << sess, hand >>
xvars == << probe, sess, hand >>
vars ==
  << env, resolved, call, firstReturn, started, req, look, net, probe, sess,
     hand >>

CallIds == 1..MaxCalls

IdleCall ==
  [ pc |-> "idle", name |-> Undefined, i |-> 0, probed |-> << >>,
    reqs |-> << >>, result |-> Undefined, verdicts |-> << >>, via |-> "none" ]

\* ------------------------------------------------------------------------
\* resolveEndpoint
\* ------------------------------------------------------------------------
\* envKey with the ternary collapsed to its last branch
envKeyLastBranch(name) == "OAUTH_USERINFO_URL"

\* the ternary of lines 86-88
envKey(name) ==
  IF name = "authorize" THEN "OAUTH_AUTHORIZE_URL"
  ELSE IF name = "token" THEN "OAUTH_TOKEN_URL"
  ELSE "OAUTH_USERINFO_URL"

\* the calls still running: the record of a call that has returned or
\* thrown is kept for one state and dropped by the next step
Live ==
  [ c \in CallIds |->
      IF call[c].pc \in {"head", "get"} THEN call[c] ELSE IdleCall ]

\* ENDPOINT_CANDIDATES[name] || []
CandidateList(name) ==
  IF name \in DOMAIN ENDPOINT_CANDIDATES THEN ENDPOINT_CANDIDATES[name]
  ELSE << >>

\* ProbeAfterHead without the retry of lines 72-79: a rejected HEAD makes
\* the candidate unreachable
ProbeAfterHeadNoRetry(outcome) ==
  IF outcome = Reachable THEN "true" ELSE "false"

\* probeUrl after the HEAD request settled: "true", "false", or "retry"
\* (the catch block that issues the GET)
ProbeAfterHead(outcome) ==
  IF outcome = NetworkError THEN "retry"
  ELSE IF outcome = Reachable THEN "true"
  ELSE "false"

\* ProbeAfterGet without the inner catch of line 77: a rejected GET is
\* thrown on to the caller
ProbeAfterGetRethrows(outcome) ==
  IF outcome = Reachable THEN "true"
  ELSE IF outcome = NetworkError THEN "throw"
  ELSE "false"

\* probeUrl after the GET request settled
ProbeAfterGet(outcome) ==
  IF outcome = Reachable THEN "true" ELSE "false"

\* a call returns url: the history of first returns is kept
Return(c, url, how, rec) ==
  /\ call' = [Live EXCEPT ![c] =
                [rec EXCEPT !.pc = "returned", !.result = url, !.via = how]]
  /\ firstReturn' =
       IF firstReturn[rec.name] = Undefined
       THEN [firstReturn EXCEPT ![rec.name] = url]
       ELSE firstReturn

\* NextCandidate with a fallback that fills the slot of every name
NextCandidateSharedFallback(c, rec) ==
  LET list == CandidateList(rec.name) IN
  IF rec.i < Len(list)
  THEN /\ call' = [Live EXCEPT ![c] =
                     [rec EXCEPT !.pc = "head", !.i = rec.i + 1,
                        !.probed = Append(rec.probed, list[rec.i + 1]),
                        !.reqs = << "HEAD" >>]]
       /\ UNCHANGED << resolved, firstReturn >>
  ELSE /\ resolved' = [n \in Names |-> list[1]]
       /\ Return(c, list[1], "fallback", rec)

\* NextCandidate with a loop that starts over at the first candidate when
\* the list is exhausted
NextCandidateWraps(c, rec) ==
  LET list == CandidateList(rec.name)
      nxt  == IF rec.i < Len(list) THEN rec.i + 1 ELSE 1
  IN /\ call' = [Live EXCEPT ![c] =
                   [rec EXCEPT !.pc = "head", !.i = nxt,
                      !.probed = Append(rec.probed, list[nxt]),
                      !.reqs = << "HEAD" >>]]
     /\ UNCHANGED << resolved, firstReturn >>

\* NextCandidate without the fallback of lines 113-117: an exhausted list
\* fails the resolution
NextCandidateNoFallback(c, rec) ==
  LET list == CandidateList(rec.name) IN
  IF rec.i < Len(list)
  THEN /\ call' = [Live EXCEPT ![c] =
                     [rec EXCEPT !.pc = "head", !.i = rec.i + 1,
                        !.probed = Append(rec.probed, list[rec.i + 1]),
                        !.reqs = << "HEAD" >>]]
       /\ UNCHANGED << resolved, firstReturn >>
  ELSE /\ call' = [Live EXCEPT ![c] = [rec EXCEPT !.pc = "threw"]]
       /\ UNCHANGED << resolved, firstReturn >>

\* the for loop of lines 97-110 moves on to the candidate after rec.i, or
\* leaves the loop into the fallback of lines 113-119
NextCandidate(c, rec) ==
  LET list == CandidateList(rec.name) IN
  IF rec.i < Len(list)
  THEN /\ call' = [Live EXCEPT ![c] =
                     [rec EXCEPT !.pc = "head", !.i = rec.i + 1,
                        !.probed = Append(rec.probed, list[rec.i + 1]),
                        !.reqs = << "HEAD" >>]]
       /\ UNCHANGED << resolved, firstReturn >>
  ELSE /\ resolved' = [resolved EXCEPT ![rec.name] = list[1]]
       /\ Return(c, list[1], "fallback", rec)

\* AfterProbe without the return of line 103: the loop runs on to the last
\* candidate
AfterProbeNoReturn(c, v, rec0) ==
  LET rec  == [rec0 EXCEPT !.verdicts = Append(rec0.verdicts, v)]
      list == CandidateList(rec.name) IN
  IF v = "true" /\ rec.i = Len(list)
  THEN /\ resolved' = [resolved EXCEPT ![rec.name] = list[rec.i]]
       /\ Return(c, list[rec.i], "probe", rec)
  ELSE NextCandidate(c, rec)

\* the loop body after probeUrl settled with verdict v for candidate rec.i:
\* "true" returns the candidate, "false" and a thrown error (caught at
\* line 107) go on with the loop
AfterProbe(c, v, rec0) ==
  LET rec  == [rec0 EXCEPT !.verdicts = Append(rec0.verdicts, v)]
      list == CandidateList(rec.name) IN
  IF v = "true"
  THEN /\ resolved' = [resolved EXCEPT ![rec.name] = list[rec.i]]
       /\ Return(c, list[rec.i], "probe", rec)
  ELSE NextCandidate(c, rec)

\* a call is in flight while a probe request of it is pending
InFlight(c) == call[c].pc \in {"head", "get"}

\* the slot a new call takes: the lowest one holding no call in flight
FreeSlot ==
  IF \E c \in CallIds : ~InFlight(c)
  THEN CHOOSE c \in CallIds : ~InFlight(c) /\ \A d \in CallIds : d < c => InFlight(d)
  ELSE 0

\* resolveEndpoint(name) from its entry to its first await
StartStep(c, name) ==
  /\ started < MaxStarts
  /\ c = FreeSlot
  /\ started' = started + 1
  /\ LET rec == [IdleCall EXCEPT !.name = name]
         list == CandidateList(name)
     IN
     IF Truthy(env[envKey(name)])
     THEN /\ resolved' = [resolved EXCEPT ![name] = env[envKey(name)]]
          /\ Return(c, env[envKey(name)], "override", rec)
     ELSE IF Truthy(resolved[name])
     THEN /\ Return(c, resolved[name], "cache", rec)
          /\ UNCHANGED resolved
     ELSE IF Len(list) > 0
     THEN /\ call' = [Live EXCEPT ![c] =
                        [rec EXCEPT !.pc = "head", !.i = 1,
                           !.probed = << list[1] >>,
                           !.reqs = << "HEAD" >>]]
          /\ UNCHANGED << resolved, firstReturn >>
     ELSE /\ call' = [Live EXCEPT ![c] = [rec EXCEPT !.pc = "threw"]]
          /\ UNCHANGED << resolved, firstReturn >>
  /\ UNCHANGED env

\* a resolveEndpoint call made on its own
Start(c, name) == StartStep(c, name) /\ UNCHANGED << req, lvars, xvars >>

\* the HEAD request of a probe settles
HeadStep(c, outcome) ==
  /\ call[c].pc = "head"
  /\ LET rec == call[c]
         v   == ProbeAfterHead(outcome)
     IN
     IF v = "retry"
     THEN /\ call' = [Live EXCEPT ![c] =
                        [rec EXCEPT !.pc = "get",
                           !.reqs = Append(rec.reqs, "GET")]]
          /\ UNCHANGED << resolved, firstReturn >>
     ELSE AfterProbe(c, v, rec)
  /\ UNCHANGED << env, started >>

\* the GET request of a probe settles
GetStep(c, outcome) ==
  /\ call[c].pc = "get"
  /\ AfterProbe(c, ProbeAfterGet(outcome), call[c])
  /\ UNCHANGED << env, started >>

\* the probe requests of a call made on its own settle
HeadSettles(c, outcome) ==
  HeadStep(c, outcome) /\ UNCHANGED << req, lvars, xvars >>
GetSettles(c, outcome) ==
  GetStep(c, outcome) /\ UNCHANGED << req, lvars, xvars >>

\* ------------------------------------------------------------------------
\* JavaScript values of the upstream JSON
\* ------------------------------------------------------------------------
Undef  == [ t |-> "undefined" ]
Null   == [ t |-> "null" ]
Num(n) == [ t |-> "number", n |-> n ]
Str(s) == [ t |-> "string", s |-> s ]
Obj(o) == [ t |-> "object", o |-> o ]

Falsy(v) == v \in { Undef, Null, Num(0), Str("") }

\* a || b
JsOr(a, b) == IF Falsy(a) THEN b ELSE a

\* a && b
JsAnd(a, b) == IF Falsy(a) THEN a ELSE b

\* g.key of an upstream object g (a function from its keys to values)
Get(g, key) == IF key \in DOMAIN g THEN g[key] ELSE Undef

\* g.creator.name where g.creator is an object; g.creator?.name otherwise
CreatorName(g) ==
  LET cr == Get(g, "creator") IN
  IF cr.t = "object" THEN Get(cr.o, "name") ELSE Undef

\* a null entry of an upstream array: reading a property of it throws
NullItem == [ null |-> Null ]
IsNullItem(g) == "null" \in DOMAIN g

\* ------------------------------------------------------------------------
\* /api/games: the three normalisations
\* ------------------------------------------------------------------------
\* lines 286-293
MapList(g) ==
  [ id        |-> JsOr(JsOr(JsOr(Get(g, "id"), Get(g, "universeId")),
                             Get(g, "placeId")), Get(g, "assetId")),
    name      |-> JsOr(JsOr(Get(g, "name"), Get(g, "title")), Str("")),
    creator   |-> JsOr(JsOr(JsAnd(Get(g, "creator"), CreatorName(g)),
                             Get(g, "creatorName")), Str("Unknown")),
    thumbnail |-> JsOr(JsOr(Get(g, "iconUrl"), Get(g, "thumbnailUrl")), Null),
    playing   |-> JsOr(JsOr(Get(g, "playing"), Get(g, "currentPlayers")), Null),
    visits    |-> JsOr(Get(g, "visits"), Null) ]

\* MapSorted without the || null of its thumbnail
MapSortedNoDefault(g) ==
  [ id        |-> JsOr(Get(g, "id"), Get(g, "universeId")),
    name      |-> Get(g, "name"),
    creator   |-> JsOr(CreatorName(g), Str("Unknown")),
    thumbnail |-> Get(g, "iconUrl"),
    playing   |-> JsOr(Get(g, "playing"), Null),
    visits    |-> JsOr(Get(g, "visits"), Null) ]

\* lines 308-315
MapSorted(g) ==
  [ id        |-> JsOr(Get(g, "id"), Get(g, "universeId")),
    name      |-> Get(g, "name"),
    creator   |-> JsOr(CreatorName(g), Str("Unknown")),
    thumbnail |-> JsOr(Get(g, "iconUrl"), Null),
    playing   |-> JsOr(Get(g, "playing"), Null),
    visits    |-> JsOr(Get(g, "visits"), Null) ]

\* MapUniverse without the || 'Unknown' of its creator
MapUniverseNoDefault(g) ==
  [ id        |-> Get(g, "id"),
    name      |-> Get(g, "name"),
    creator   |-> CreatorName(g),
    thumbnail |-> JsOr(Get(g, "iconUrl"), Null),
    playing   |-> JsOr(Get(g, "playing"), Null),
    visits    |-> JsOr(Get(g, "visits"), Null) ]

\* lines 334-341
MapUniverse(g) ==
  [ id        |-> Get(g, "id"),
    name      |-> Get(g, "name"),
    creator   |-> JsOr(CreatorName(g), Str("Unknown")),
    thumbnail |-> JsOr(Get(g, "iconUrl"), Null),
    playing   |-> JsOr(Get(g, "playing"), Null),
    visits    |-> JsOr(Get(g, "visits"), Null) ]

\* strategy k's normalisation of one upstream item
MapBy(k, g) ==
  IF k = 1 THEN MapList(g) ELSE IF k = 2 THEN MapSorted(g) ELSE MapUniverse(g)

\* data.map(...) of strategy k
MapAll(k, data) == [ j \in 1..Len(data) |-> MapBy(k, data[j]) ]

\* the map callback throws on a null entry
MapThrows(data) == \E j \in 1..Len(data) : IsNullItem(data[j])

\* the entries of data on which the map callback throws
Throwers(data) == { data[j] : j \in { i \in 1..Len(data) : IsNullItem(data[i]) } }

\* ------------------------------------------------------------------------
\* /api/games: inputs
\* ------------------------------------------------------------------------
\* strings are sequences of characters
Digits == { "0", "1", "2", "3", "4", "5", "6", "7", "8", "9" }
Whitespace == { " " }
Chars == { "1", "7", "a", " " }

RECURSIVE StringsUpTo(_)
StringsUpTo(n) ==
  IF n = 0 THEN { << >> }
  ELSE LET shorter == StringsUpTo(n - 1) IN
       shorter \cup { Append(w, ch) : w \in shorter, ch \in Chars }

\* req.query.query: a string, or absent
RawQueries == StringsUpTo(MaxQLen)

\* String.prototype.trim
RECURSIVE TrimStart(_)
TrimStart(w) ==
  IF w # << >> /\ Head(w) \in Whitespace THEN TrimStart(Tail(w)) ELSE w

RECURSIVE TrimEnd(_)
TrimEnd(w) ==
  IF w # << >> /\ w[Len(w)] \in Whitespace
  THEN TrimEnd(SubSeq(w, 1, Len(w) - 1)) ELSE w

Trim(w) == TrimEnd(TrimStart(w))

\* the test with the anchors left out: /\d+/.test(q)
DigitsOnlyUnanchored(q) == \E j \in 1..Len(q) : q[j] \in Digits

\* /^\d+$/.test(q)
DigitsOnly(q) == Len(q) > 0 /\ \A j \in 1..Len(q) : q[j] \in Digits

\* the upstream game objects the responses are built from
UpstreamItems ==
  { [ id |-> Num(9), name |-> Str("Test") ],
    [ id |-> Num(9), name |-> Str("Test"),
      creator |-> Obj([ name |-> Str("Builder") ]), iconUrl |-> Str("icon.png"),
      playing |-> Num(5), visits |-> Num(100) ],
    [ universeId |-> Num(7), title |-> Str("Alt"), creatorName |-> Str("Bob"),
      thumbnailUrl |-> Str("thumb.png"), currentPlayers |-> Num(3) ],
    [ id |-> Num(0), universeId |-> Num(7), name |-> Str(""), title |-> Str("Alt"),
      playing |-> Num(0), currentPlayers |-> Num(3), visits |-> Num(0) ],
    [ name |-> Str("NoId") ],
    NullItem }

RECURSIVE SeqsUpTo(_, _)
SeqsUpTo(S, n) ==
  IF n = 0 THEN { << >> }
  ELSE LET shorter == SeqsUpTo(S, n - 1) IN
       shorter \cup { Append(w, x) : w \in shorter, x \in S }

\* what fetchJson yields for a listing call: it throws (network error,
\* timeout, non-2xx status, unparsable body), or returns the parsed body:
\* null, an object whose data is no array, or an object with a data array
FailBody   == [ kind |-> "fail",   isArray |-> FALSE, data |-> << >> ]
NullBody   == [ kind |-> "null",   isArray |-> FALSE, data |-> << >> ]
NoDataBody == [ kind |-> "object", isArray |-> FALSE, data |-> << >> ]
DataBody(d) == [ kind |-> "object", isArray |-> TRUE, data |-> d ]
ListBodies ==
  { FailBody, NullBody, NoDataBody }
    \cup { DataBody(d) : d \in SeqsUpTo(UpstreamItems, MaxItems) }

\* what fetchJson yields for the sorts call: the token read by
\* sorts?.sorts?.[0]?.token (Undef when any link is missing), or it throws
SortsReplies == { "fail", "no_token", "token" }

\* what fetchJson yields for multiget-place-details: it throws, or returns
\* a non-array, an empty array, or an array whose first entry is null, a
\* place without universeId, or a place with universeId
DetailsReplies ==
  { "fail", "not_array", "empty", "null_place", "no_universe", "universe" }

\* ------------------------------------------------------------------------
\* /api/games: the handler, one action per run between two awaits
\* ------------------------------------------------------------------------
IdleReq ==
  [ pc |-> "idle", raw |-> << >>, q |-> << >>, games |-> << >>,
    listData |-> << >>, calls |-> << >>, status |-> 0, data |-> << >>,
    src |-> << >>, srcBy |-> 0, universe |-> 0, log |-> << >>,
    threwOn |-> { }, error |-> Undefined ]

\* the universeId of the place that multiget-place-details returns
UniverseIds == { 7, 9 }

\* console.log of a strategy that assigned games (lines 294, 316, 342)
UsedLine ==
  << "used games/list", "used games/sorts -> games",
     "used multiget-place-details -> games?universeIds" >>

\* console.warn of a strategy's catch (lines 297, 320, 347)
FailedLine ==
  << "games/list failed", "sorts/games failed",
     "place-details fallback failed" >>

\* Array.isArray(r.data) && r.data.length
HasItems(body) == body.kind = "object" /\ body.isArray /\ Len(body.data) > 0

\* a strategy's try block throws: fetchJson threw, r is null so that r.data
\* throws, or a map callback throws
Throws(body) ==
  \/ body.kind \in { "fail", "null" }
  \/ HasItems(body) /\ MapThrows(body.data)

\* the catch of a strategy without its handler: the exception leaves the block
EscapesUncaught(threw) == threw

\* catch (e) { console.warn(...) } of a strategy: whether an exception thrown
\* in the try block leaves the block for the handler's outer catch
Escapes(threw) == FALSE

\* the array a strategy maps: r.data when fetchJson returned an object whose
\* data is a non-empty array and no map callback throws, else nothing
Usable(body) ==
  IF body.kind = "object" /\ body.isArray /\ Len(body.data) > 0
       /\ ~MapThrows(body.data)
  THEN body.data
  ELSE << >>

\* the body of one strategy's if (Array.isArray(r.data) && r.data.length):
\* games is assigned unless fetchJson or the map threw
Mapped(k, body, games) ==
  IF Len(Usable(body)) > 0 THEN MapAll(k, Usable(body)) ELSE games

\* one strategy's try block after its listing call settled: games, the
\* array that was mapped, the entries a map callback threw on, the log line
Strategy(k, body, r) ==
  [r EXCEPT !.games = Mapped(k, body, r.games),
            !.src   = IF Len(Usable(body)) > 0 THEN body.data ELSE r.src,
            !.srcBy = IF Len(Usable(body)) > 0 THEN k ELSE r.srcBy,
            !.threwOn = IF HasItems(body)
                        THEN r.threwOn \cup Throwers(body.data)
                        ELSE r.threwOn,
            !.log   = IF Throws(body) THEN Append(r.log, FailedLine[k])
                      ELSE IF HasItems(body) THEN Append(r.log, UsedLine[k])
                      ELSE r.log]

\* a strategy's first call threw: the catch logs it
Failed(k, r) == [r EXCEPT !.log = Append(r.log, FailedLine[k])]

\* res.json({ query, limit, data: games })
Respond(r) ==
  req' = [r EXCEPT !.pc = "responded", !.status = 200, !.data = r.games]

\* the outer catch: res.status(500).json({ query, limit, data: [], error })
RespondError(r) ==
  req' = [r EXCEPT !.pc = "responded", !.status = 500, !.data = << >>,
                   !.error = "err.message"]

\* fetchJson(url): the request is issued and the handler awaits it
Issue(r, label, pc) ==
  req' = [r EXCEPT !.pc = pc, !.calls = Append(r.calls, label)]

\* line 325: strategy 3 is entered or the handler responds
PlaceStep(r) ==
  IF Len(r.games) = 0 /\ Len(r.q) > 0 /\ DigitsOnly(r.q)
  THEN Issue(r, "multiget-place-details", "details")
  ELSE Respond(r)

\* SortsStep that gives up the chain when strategy 1 logged a failure
SortsStepUnlessFailed(r) ==
  IF Len(r.games) = 0 /\ r.log = << >>
  THEN Issue(r, "games/sorts", "sorts")
  ELSE PlaceStep(r)

\* SortsStep without the test of line 301
SortsStepAlways(r) == Issue(r, "games/sorts", "sorts")

\* line 301: strategy 2 is entered or skipped
SortsStep(r) ==
  IF Len(r.games) = 0
  THEN Issue(r, "games/sorts", "sorts")
  ELSE PlaceStep(r)

\* the request arrives: q is computed and games/list is called
GamesRequest(raw) ==
  /\ req.pc = "idle"
  /\ Issue([IdleReq EXCEPT !.raw = raw, !.q = Trim(raw)], "games/list", "list")
  /\ UNCHANGED << rvars, lvars, xvars >>

\* games/list settles
ListSettles(body) ==
  /\ req.pc = "list"
  /\ IF Escapes(Throws(body))
     THEN RespondError(req)
     ELSE SortsStep([Strategy(1, body, req) EXCEPT !.listData = Usable(body)])
  /\ UNCHANGED << rvars, lvars, xvars >>

\* games/sorts settles
SortsSettles(reply) ==
  /\ req.pc = "sorts"
  /\ IF reply = "token"
     THEN Issue(req, "games?sortToken", "sorted")
     ELSE IF reply = "fail"
     THEN IF Escapes(TRUE) THEN RespondError(req) ELSE PlaceStep(Failed(2, req))
     ELSE PlaceStep(req)
  /\ UNCHANGED << rvars, lvars, xvars >>

\* games?sortToken settles
SortedSettles(body) ==
  /\ req.pc = "sorted"
  /\ IF Escapes(Throws(body))
     THEN RespondError(req)
     ELSE PlaceStep(Strategy(2, body, req))
  /\ UNCHANGED << rvars, lvars, xvars >>

\* multiget-place-details settles
DetailsSettles(reply, u) ==
  /\ req.pc = "details"
  /\ IF reply = "universe"
     THEN Issue([req EXCEPT !.universe = u], "games?universeIds", "universe")
     ELSE IF reply = "fail"
     THEN IF Escapes(TRUE) THEN RespondError(req) ELSE Respond(Failed(3, req))
     ELSE Respond(req)
  /\ UNCHANGED << rvars, lvars, xvars >>

\* games?universeIds settles
UniverseSettles(body) ==
  /\ req.pc = "universe"
  /\ IF Escapes(Throws(body))
     THEN RespondError(req)
     ELSE Respond(Strategy(3, body, req))
  /\ UNCHANGED << rvars, lvars, xvars >>

\* ------------------------------------------------------------------------
\* The lookups: /api/game/:id and /api/users/:id of src/server.js and
\* /api/me of src/unnamed/part_001
\* ------------------------------------------------------------------------
Arr(a) == [ t |-> "array", a |-> a ]

\* v[0]
Index0(v) == IF v.t = "array" /\ Len(v.a) > 0 THEN v.a[1] ELSE Undef

\* v.key of a value that is neither null nor undefined
Prop(v, key) == IF v.t = "object" THEN Get(v.o, key) ELSE Undef

\* what an awaited call gives the handler: a thrown error, or the parsed body
Thrown == [ kind |-> "throw", v |-> Null ]
Parsed(v) == [ kind |-> "json", v |-> v ]

Routes == { "game", "user", "me" }
Ids == { "7", "17", "42" }

\* the places multiget-place-details knows
InfoItems ==
  { Obj([ universeId |-> Num(9), rootPlaceId |-> Num(3), name |-> Str("Test"),
          creator |-> Obj([ name |-> Str("Builder") ]), playing |-> Num(5) ]),
    Obj([ id |-> Num(9), title |-> Str("Alt"), playingCount |-> Num(3) ]),
    Obj([ placeId |-> Num(4), playing |-> Num(0) ]) }

\* the bodies of multiget-place-details
PlaceBodies ==
  { Null, Arr(<< >>), Obj([ errors |-> Str("bad request") ]) }
    \cup { Arr(<< info >>) : info \in InfoItems }

\* the bodies of users/:id and users/authenticated
UserBodies ==
  { Null,
    Obj([ id |-> Num(5), name |-> Str("bob"), displayName |-> Str("Bob"),
          created |-> Str("2017") ]),
    Obj([ id |-> Num(5), name |-> Str("bob") ]) }

\* the bodies of the thumbnails service
ThumbBodies ==
  { Null,
    Obj([ errors |-> Str("bad request") ]),
    Obj([ data |-> Arr(<< >>) ]),
    Obj([ data |-> Arr(<< Obj([ state |-> Str("Pending") ]) >>) ]),
    Obj([ data |-> Arr(<< Obj([ imageUrl |-> Str("img.png") ]) >>) ]) }

\* (thumbs.data && thumbs.data[0] && thumbs.data[0].imageUrl) || null
ImageOf(thumbs) ==
  LET data == Prop(thumbs, "data") IN
  JsOr(JsAnd(JsAnd(data, Index0(data)), Prop(Index0(data), "imageUrl")), Null)

\* headshot.data?.[0]?.imageUrl || ''
HeadshotUrl(headshot) ==
  JsOr(Prop(Index0(Prop(headshot, "data")), "imageUrl"), Str(""))

IdleLook ==
  [ pc |-> "idle", route |-> "none", id |-> "", pd |-> Undef, info |-> Undef,
    enrich |-> "none", calls |-> << >>, status |-> 0, body |-> Undef ]

\* the upstream service each call of a route goes to
PrimaryCall ==
  [ game |-> "multiget-place-details", user |-> "users",
    me |-> "users/authenticated" ]
EnrichCall ==
  [ game |-> "games/icons", user |-> "avatar-headshot",
    me |-> "avatar-headshot" ]

\* no call is pending
NoCall == [ via |-> "none", phase |-> "idle", timer |-> FALSE ]

\* a call starts: fetchJson arms its timer before it calls fetch, the plain
\* fetch of /api/me has none
IssueCall(via) ==
  [ via |-> via, phase |-> "connecting", timer |-> (via = "fetchJson") ]

\* the function each route calls its upstream with
ViaOf(route) == IF route = "me" THEN "fetch" ELSE "fetchJson"

\* the handler responds
LookRespond(l, status, body) ==
  /\ look' = [l EXCEPT !.pc = "responded", !.status = status, !.body = body]
  /\ net' = NoCall

\* catch (err) { res.status(500).json({ error: err.message }) }
LookError(l) == LookRespond(l, 500, Obj([ error |-> Str("err.message") ]))

\* the handler awaits its enrichment call
IssueEnrich(l) ==
  /\ look' = [l EXCEPT !.pc = "enrich",
                       !.calls = Append(l.calls, EnrichCall[l.route])]
  /\ net' = IssueCall(ViaOf(l.route))

\* gameDetail of /api/game/:id
GameDetail(id, info, thumbnail) ==
  Obj([ id |-> JsOr(JsOr(Prop(info, "universeId"), Prop(info, "rootPlaceId")),
                    Prop(info, "id")),
        name |-> JsOr(JsOr(Prop(info, "name"), Prop(info, "title")),
                      Str("Game " \o id)),
        creator |-> JsOr(JsAnd(Prop(info, "creator"),
                               JsOr(Prop(Prop(info, "creator"), "name"),
                                    Prop(Prop(info, "creator"), "Name"))),
                         Str("Unknown")),
        rootPlaceId |-> JsOr(JsOr(Prop(info, "rootPlaceId"),
                                  Prop(info, "placeId")), Str(id)),
        thumbnail |-> thumbnail,
        playing |-> IF Prop(info, "playing").t = "number"
                    THEN Prop(info, "playing")
                    ELSE JsOr(Prop(info, "playingCount"), Null) ])

\* GameResume without the test of line 188: the handler goes on with a
\* null info
GameResumeNoTest(out) ==
  IF look.pc = "primary"
  THEN IF out.kind = "throw" THEN LookError(look)
       ELSE LET info == IF ~Falsy(out.v) /\ ~Falsy(Index0(out.v))
                        THEN Index0(out.v) ELSE Null
            IN IssueEnrich([look EXCEPT !.pd = out.v, !.info = info])
  ELSE LET failed == out.kind = "throw" \/ out.v = Null
           thumbnail == IF failed THEN Null ELSE ImageOf(out.v)
       IN LookRespond([look EXCEPT !.enrich = IF failed THEN "failed" ELSE "ok"],
                      200, GameDetail(look.id, look.info, thumbnail))

\* /api/game/:id resumes after an await
GameResume(out) ==
  IF look.pc = "primary"
  THEN IF out.kind = "throw" THEN LookError(look)
       ELSE LET info == IF ~Falsy(out.v) /\ ~Falsy(Index0(out.v))
                        THEN Index0(out.v) ELSE Null
                l == [look EXCEPT !.pd = out.v]
            IN IF info = Null
               THEN LookRespond(l, 404, Obj([ error |-> Str("game not found") ]))
               ELSE IssueEnrich([l EXCEPT !.info = info])
  ELSE LET failed == out.kind = "throw" \/ out.v = Null
           thumbnail == IF failed THEN Null ELSE ImageOf(out.v)
       IN LookRespond([look EXCEPT !.enrich = IF failed THEN "failed" ELSE "ok"],
                      200, GameDetail(look.id, look.info, thumbnail))

\* /api/users/:id resumes after an await
UserResume(out) ==
  IF look.pc = "primary"
  THEN IF out.kind = "throw" THEN LookError(look)
       ELSE IssueEnrich([look EXCEPT !.info = out.v])
  ELSE LET failed == out.kind = "throw" \/ out.v = Null
           l == [look EXCEPT !.enrich = IF failed THEN "failed" ELSE "ok"]
       IN IF failed \/ look.info = Null
          THEN LookError(l)
          ELSE LookRespond(l, 200,
                 Obj([ id |-> Prop(look.info, "id"),
                       name |-> JsOr(Prop(look.info, "displayName"),
                                     Prop(look.info, "name")),
                       created |-> Prop(look.info, "created"),
                       headshot |-> ImageOf(out.v) ]))

\* /api/me of part_001 resumes after an await
MeResume(out) ==
  IF look.pc = "primary"
  THEN IF out.kind = "throw" \/ out.v = Null THEN LookError(look)
       ELSE IssueEnrich([look EXCEPT !.info = out.v])
  ELSE LET failed == out.kind = "throw" \/ out.v = Null
           l == [look EXCEPT !.enrich = IF failed THEN "failed" ELSE "ok"]
       IN IF failed
          THEN LookError(l)
          ELSE LookRespond(l, 200,
                 Obj([ id |-> Prop(look.info, "id"),
                       name |-> JsOr(Prop(look.info, "displayName"),
                                     Prop(look.info, "name")),
                       headshot |-> HeadshotUrl(out.v) ]))

\* the handler resumes with what the awaited call gave
Resume(out) ==
  IF look.route = "game" THEN GameResume(out)
  ELSE IF look.route = "user" THEN UserResume(out)
  ELSE MeResume(out)

\* the bodies the pending call can be answered with
BodiesFor(l) ==
  IF l.pc = "enrich" THEN ThumbBodies
  ELSE IF l.route = "game" THEN PlaceBodies
  ELSE UserBodies

\* a lookup request arrives: the handler runs to its first await
LookupRequest(route, id, signedIn) ==
  /\ look.pc = "idle"
  /\ IF route = "me" /\ ~signedIn
     THEN LookRespond([IdleLook EXCEPT !.route = route], 401,
                      Obj([ error |-> Str("Not signed in") ]))
     ELSE /\ look' = [IdleLook EXCEPT !.pc = "primary", !.route = route,
                                       !.id = IF route = "me" THEN "" ELSE id,
                                       !.calls = << PrimaryCall[route] >>]
          /\ net' = IssueCall(ViaOf(route))
  /\ UNCHANGED << rvars, req, xvars >>

\* the response headers arrive: fetch resolves. fetchJson clears its timer,
\* throws on !res.ok and goes on to res.json(); /api/me tests ok for its
\* first call only and goes on to json()
HeadersArrive(ok) ==
  /\ net.phase = "connecting"
  /\ IF ok \/ (net.via = "fetch" /\ look.pc = "enrich")
     THEN /\ net' = [net EXCEPT !.phase = "body", !.timer = FALSE]
          /\ UNCHANGED look
     ELSE Resume(Thrown)
  /\ UNCHANGED << rvars, req, xvars >>

\* the connection fails: fetch rejects
ConnectionFails ==
  /\ net.phase = "connecting"
  /\ Resume(Thrown)
  /\ UNCHANGED << rvars, req, xvars >>

\* the timer of fetchJson fires: controller.abort() makes fetch reject
TimerFires ==
  /\ net.timer
  /\ net.phase = "connecting"
  /\ Resume(Thrown)
  /\ UNCHANGED << rvars, req, xvars >>

\* the body has arrived and parses: json() resolves
BodyArrives(v) ==
  /\ net.phase = "body"
  /\ v \in BodiesFor(look)
  /\ Resume(Parsed(v))
  /\ UNCHANGED << rvars, req, xvars >>

\* the body does not parse, or the connection breaks while it is read:
\* json() rejects
BodyFails ==
  /\ net.phase = "body"
  /\ Resume(Thrown)
  /\ UNCHANGED << rvars, req, xvars >>

\* the handler has responded and returns
LookupReturns ==
  /\ look.pc = "responded"
  /\ look' = IdleLook
  /\ net' = NoCall
  /\ UNCHANGED << rvars, req, xvars >>

\* ------------------------------------------------------------------------
\* probeUrl on its own, with the responses it gets
\* ------------------------------------------------------------------------
\* what a request ends with: fetch rejects (network error, abort of
\* timeoutFetch after 3000 ms), or resolves with a response
Rejected == [ ok |-> FALSE, status |-> 0 ]
Status(n) == [ ok |-> TRUE, status |-> n ]
Statuses == { 200, 302, 404, 499, 500, 503 }
Responses == { Rejected } \cup { Status(n) : n \in Statuses }

\* OutcomeOf with the threshold of line 71 included
OutcomeOfUpTo500(resp) ==
  IF ~resp.ok THEN NetworkError
  ELSE IF resp.status <= 500 THEN Reachable
  ELSE ServerError

\* the three ways probeUrl tells a settled request apart: the await throws,
\* res.status < 500, or not
OutcomeOf(resp) ==
  IF ~resp.ok THEN NetworkError
  ELSE IF resp.status < 500 THEN Reachable
  ELSE ServerError

\* the URLs probeUrl is called with
Urls ==
  UNION { { ENDPOINT_CANDIDATES[n][j] : j \in 1..Len(ENDPOINT_CANDIDATES[n]) } :
            n \in DOMAIN ENDPOINT_CANDIDATES }

IdleProbe ==
  [ pc |-> "idle", url |-> Undefined, reqs |-> << >>, resp |-> << >>,
    verdict |-> "none" ]

\* probeUrl(url) up to its first await
ProbeCall(url) ==
  /\ probe.pc = "idle"
  /\ probe' = [IdleProbe EXCEPT !.pc = "head", !.url = url,
                                !.reqs = << "HEAD" >>]
  /\ UNCHANGED << rvars, req, lvars, avars >>

\* the HEAD request settles
ProbeHeadSettles(resp) ==
  /\ probe.pc = "head"
  /\ LET v == ProbeAfterHead(OutcomeOf(resp))
         p == [probe EXCEPT !.resp = Append(probe.resp, resp)]
     IN probe' = IF v = "retry"
                 THEN [p EXCEPT !.pc = "get", !.reqs = Append(p.reqs, "GET")]
                 ELSE [p EXCEPT !.pc = "done", !.verdict = v]
  /\ UNCHANGED << rvars, req, lvars, avars >>

\* the GET request settles
ProbeGetSettles(resp) ==
  /\ probe.pc = "get"
  /\ probe' = [probe EXCEPT !.pc = "done",
                            !.resp = Append(probe.resp, resp),
                            !.verdict = ProbeAfterGet(OutcomeOf(resp))]
  /\ UNCHANGED << rvars, req, lvars, avars >>

\* the caller has the verdict
ProbeReturns ==
  /\ probe.pc = "done"
  /\ probe' = IdleProbe
  /\ UNCHANGED << rvars, req, lvars, avars >>

\* ------------------------------------------------------------------------
\* The session routes of part_000: /auth, /auth/callback, /auth/logout,
\* /api/me
\* ------------------------------------------------------------------------
\* ROBLOX_CLIENT_ID and ROBLOX_CLIENT_SECRET of process.env
CredKeys == { "ROBLOX_CLIENT_ID", "ROBLOX_CLIENT_SECRET" }

\* the values Math.random().toString(36).slice(2) gives to two /auth
\* requests
States == { Str("k1"), Str("k2") }

\* req.query.code and req.query.state: absent, empty, or a string
Codes == { Undef, Str(""), Str("c") }
QueryStates == { Undef } \cup States

\* a session the middleware has just created; loggedOut is history: the
\* logout route ran and no token exchange has stored tokens since
NewSession ==
  [ oauth_state |-> Undef, roblox_token |-> Undef, roblox_id_token |-> Undef,
    loggedOut |-> FALSE ]

\* the request being handled: route, query, the resolveEndpoint call it
\* awaits, the calls it has made, and its response; stored, sawOut,
\* hadToken, first and dec are history of the run (whether the tokens were
\* stored, whether the request arrived after a logout, whether the session
\* held an access token, how the userinfo attempt and the decode ended)
IdleHand ==
  [ pc |-> "idle", route |-> "none", code |-> Undef, state |-> Undef,
    slot |-> 0, calls |-> << >>, ok |-> FALSE, status |-> 0, body |-> Undef,
    stored |-> FALSE, sawOut |-> FALSE, hadToken |-> FALSE,
    first |-> "skipped", dec |-> "skipped", userinfo |-> Null ]

\* res.status(status).send(body) / res.json(body) / res.redirect(body)
HandRespond(h, status, body) ==
  [h EXCEPT !.pc = "responded", !.status = status, !.body = body, !.slot = 0]

\* the handler makes an upstream call and awaits it
HandIssue(h, pc, what) ==
  [h EXCEPT !.pc = pc, !.calls = Append(h.calls, what), !.slot = 0]

JsonError(msg) == Obj([ error |-> Str(msg) ])

\* what the token endpoint answers: the fetch rejects (network error, abort
\* after 10000 ms), or a response with tokenRes.ok true or false
TokenReplies == { "rejected", "ok", "not_ok" }

\* a body that is no JSON text
Unparsable == [ kind |-> "text", v |-> Null ]

\* the JSON bodies of the token endpoint
TokenJsons ==
  { Null,
    Obj([ error |-> Str("invalid_grant") ]),
    Obj([ access_token |-> Str("at") ]),
    Obj([ access_token |-> Str("at"), id_token |-> Str("good") ]),
    Obj([ access_token |-> Str("at"), id_token |-> Str("bad") ]),
    Obj([ id_token |-> Str("good") ]) }

\* tokenRes.text(): rejects, or gives a text that parses or does not
TokenTexts == { Thrown, Unparsable } \cup { Parsed(j) : j \in TokenJsons }

\* jwt.decode: the payload of a well-formed token, null otherwise
Decode(idToken) ==
  IF idToken = Str("good")
  THEN Obj([ sub |-> Str("7"), name |-> Str("bob") ])
  ELSE Null

\* what fetchJson gives for the userinfo endpoint
UserinfoReplies ==
  { Thrown, Parsed(Null),
    Parsed(Obj([ sub |-> Str("7"), name |-> Str("bob"),
                 picture |-> Str("p.png") ])),
    Parsed(Obj([ sub |-> Str("7"), preferred_username |-> Str("bobby") ])),
    Parsed(Obj([ nickname |-> Str("anon") ])) }

\* what fetchJson gives for the thumbnails service
ThumbReplies == { Thrown } \cup { Parsed(v) : v \in ThumbBodies }

\* userinfo.sub?.toString?.()
SubToString(v) == IF v \in { Undef, Null } THEN Undef ELSE v

\* lines 251-252
UserIdOf(u) ==
  JsOr(JsOr(Prop(u, "sub"), Prop(u, "user_id")), SubToString(Prop(u, "sub")))
PictureOf(u) == JsOr(JsOr(Prop(u, "picture"), Prop(u, "image")), Str(""))

\* line 265
NameOf(u) ==
  JsOr(JsOr(JsOr(JsOr(JsOr(Prop(u, "name"), Prop(u, "nickname")),
                      Prop(u, "preferred_username")),
                 Prop(u, "displayName")),
            Prop(u, "username")),
       Str("Unknown"))

\* res.json({ id: userId, name, headshot })
MeBody(u, headshot) ==
  Obj([ id |-> UserIdOf(u), name |-> NameOf(u), headshot |-> headshot ])

\* lines 251-266 up to the thumbnails call: userinfo is truthy
HeadshotPhase(h) ==
  LET u == h.userinfo IN
  IF Falsy(PictureOf(u)) /\ ~Falsy(UserIdOf(u))
  THEN HandIssue(h, "thumb", "GET thumbnails")
  ELSE HandRespond(h, 200, MeBody(u, PictureOf(u)))

\* DecodePhase that decodes the id_token whenever the session holds one
DecodePhaseAlways(h, s) ==
  LET try     == ~Falsy(s.roblox_id_token)
      decoded == IF try THEN Decode(s.roblox_id_token) ELSE Null
      h1      == IF ~try THEN h
                 ELSE IF Falsy(decoded) THEN [h EXCEPT !.dec = "null"]
                 ELSE [h EXCEPT !.dec = "ok", !.userinfo = decoded]
  IN IF Falsy(h1.userinfo)
     THEN HandRespond(h1, 500, JsonError("Failed to retrieve user info"))
     ELSE HeadshotPhase(h1)

\* lines 233-249: the id_token fallback and the test for no user info
DecodePhase(h, s) ==
  LET try     == Falsy(h.userinfo) /\ ~Falsy(s.roblox_id_token)
      decoded == IF try THEN Decode(s.roblox_id_token) ELSE Null
      h1      == IF ~try THEN h
                 ELSE IF Falsy(decoded) THEN [h EXCEPT !.dec = "null"]
                 ELSE [h EXCEPT !.dec = "ok", !.userinfo = decoded]
  IN IF Falsy(h1.userinfo)
     THEN HandRespond(h1, 500, JsonError("Failed to retrieve user info"))
     ELSE HeadshotPhase(h1)

\* the handler after the resolveEndpoint call rec it awaits took a step:
\* the call returned a URL, threw, or is still probing
AfterResolve(h, rec, s) ==
  IF rec.pc = "returned"
  THEN CASE h.route = "auth" -> HandRespond(h, 302, Str(rec.result))
         [] h.route = "callback" -> HandIssue(h, "posting", "POST token")
         [] OTHER -> HandIssue(h, "userinfo", "GET userinfo")
  ELSE IF rec.pc = "threw"
  THEN CASE h.route = "auth" ->
              HandRespond(h, 500,
                          Str("OAuth authorize endpoint not available."))
         [] h.route = "callback" ->
              HandRespond(h, 500, Str("OAuth token exchange error"))
         [] OTHER -> DecodePhase([h EXCEPT !.first = "failed", !.slot = 0], s)
  ELSE h

\* the handler calls resolveEndpoint(name) and runs on to its next await
HandResolve(h, name, s) ==
  /\ StartStep(FreeSlot, name)
  /\ hand' = AfterResolve([h EXCEPT !.pc = "resolving", !.slot = FreeSlot,
                             !.calls = Append(h.calls, "resolveEndpoint")],
                          call'[FreeSlot], s)

\* GET /auth, lines 146-165
AuthRequest(st) ==
  /\ hand.pc = "idle"
  /\ LET h == [IdleHand EXCEPT !.route = "auth"] IN
     IF \E k \in CredKeys : ~Truthy(env[k])
     THEN /\ hand' = HandRespond(h, 500, Str("Server not configured"))
          /\ UNCHANGED << sess, rvars >>
     ELSE /\ sess' = [sess EXCEPT !.oauth_state = st]
          /\ HandResolve([h EXCEPT !.state = st], "authorize", sess)
  /\ UNCHANGED << req, lvars, probe >>

\* !code || state !== req.session.oauth_state
InvalidCallback(code, state, s) == Falsy(code) \/ state # s.oauth_state

\* GET /auth/callback up to its first await, lines 168-174
CallbackRequest(code, state) ==
  /\ hand.pc = "idle"
  /\ LET h == [IdleHand EXCEPT !.route = "callback", !.code = code,
                 !.state = state] IN
     IF InvalidCallback(code, state, sess)
     THEN /\ hand' = HandRespond(h, 400, Str("Invalid OAuth response"))
          /\ UNCHANGED rvars
     ELSE HandResolve(h, "token", sess)
  /\ UNCHANGED << sess, req, lvars, probe >>

\* a probe request of the resolveEndpoint call the handler awaits settles
HandHead(outcome) ==
  /\ hand.pc = "resolving"
  /\ HeadStep(hand.slot, outcome)
  /\ hand' = AfterResolve(hand, call'[hand.slot], sess)
  /\ UNCHANGED << sess, req, lvars, probe >>
HandGet(outcome) ==
  /\ hand.pc = "resolving"
  /\ GetStep(hand.slot, outcome)
  /\ hand' = AfterResolve(hand, call'[hand.slot], sess)
  /\ UNCHANGED << sess, req, lvars, probe >>

\* timeoutFetch of the token endpoint settles, line 186
TokenResponds(reply) ==
  /\ hand.pc = "posting"
  /\ hand' = IF reply = "rejected"
             THEN HandRespond(hand, 500, Str("OAuth token exchange error"))
             ELSE [hand EXCEPT !.pc = "reading", !.ok = (reply = "ok")]
  /\ UNCHANGED << sess, rvars, req, lvars, probe >>

\* lines 195-196
StoreTokens(s, tokenJson) ==
  [s EXCEPT !.roblox_token = Prop(tokenJson, "access_token"),
            !.roblox_id_token =
               IF Falsy(Prop(tokenJson, "id_token")) THEN @
               ELSE Prop(tokenJson, "id_token"),
            !.loggedOut = FALSE]

\* tokenRes.text() settles and the handler runs to its end, lines 187-202
TokenTextRead(text) ==
  /\ hand.pc = "reading"
  /\ IF text.kind = "throw"
     THEN /\ hand' = HandRespond(hand, 500, Str("OAuth token exchange error"))
          /\ UNCHANGED sess
     ELSE IF ~hand.ok
     THEN /\ hand' = HandRespond(hand, 500, Str("Token exchange failed"))
          /\ UNCHANGED sess
     ELSE IF text.kind = "text" \/ text.v \in { Null, Undef }
     THEN /\ hand' = HandRespond(hand, 500, Str("OAuth token exchange error"))
          /\ UNCHANGED sess
     ELSE /\ sess' = StoreTokens(sess, text.v)
          /\ hand' = HandRespond([hand EXCEPT !.stored = TRUE], 302, Str("/"))
  /\ UNCHANGED << rvars, req, lvars, probe >>

\* AfterLogout that leaves the id_token in the session
AfterLogoutKeepsIdToken(s) ==
  [s EXCEPT !.roblox_token = Undef, !.loggedOut = TRUE]

\* lines 207-208
AfterLogout(s) ==
  [s EXCEPT !.roblox_token = Undef, !.roblox_id_token = Undef,
            !.loggedOut = TRUE]

\* GET /auth/logout, lines 206-210: the route is synchronous and may run
\* while another request of the session awaits
Logout ==
  /\ sess' = AfterLogout(sess)
  /\ UNCHANGED << hand, rvars, req, lvars, probe >>

\* !req.session.roblox_token && !req.session.roblox_id_token
SignedOut(s) == Falsy(s.roblox_token) /\ Falsy(s.roblox_id_token)

\* GET /api/me up to its first await, lines 213-224
MeRequest ==
  /\ hand.pc = "idle"
  /\ LET h == [IdleHand EXCEPT !.route = "me", !.sawOut = sess.loggedOut,
                 !.hadToken = ~Falsy(sess.roblox_token)] IN
     IF SignedOut(sess)
     THEN /\ hand' = HandRespond(h, 401, JsonError("Not signed in"))
          /\ UNCHANGED rvars
     ELSE IF ~Falsy(sess.roblox_token)
     THEN HandResolve(h, "userinfo", sess)
     ELSE /\ hand' = DecodePhase(h, sess)
          /\ UNCHANGED rvars
  /\ UNCHANGED << sess, req, lvars, probe >>

\* fetchJson of the userinfo endpoint settles, lines 224-229
UserinfoSettles(reply) ==
  /\ hand.pc = "userinfo"
  /\ LET h == IF reply.kind = "throw" THEN [hand EXCEPT !.first = "failed"]
              ELSE [hand EXCEPT !.userinfo = reply.v,
                      !.first = IF Falsy(reply.v) THEN "empty" ELSE "ok"]
     IN hand' = DecodePhase(h, sess)
  /\ UNCHANGED << sess, rvars, req, lvars, probe >>

\* fetchJson of the thumbnails service settles, lines 256-266
ThumbSettles(reply) ==
  /\ hand.pc = "thumb"
  /\ LET headshot == IF reply.kind = "throw" \/ reply.v \in { Null, Undef }
                     THEN Str("")
                     ELSE HeadshotUrl(reply.v)
     IN hand' = HandRespond(hand, 200, MeBody(hand.userinfo, headshot))
  /\ UNCHANGED << sess, rvars, req, lvars, probe >>

\* the handler of the session route has responded and returns
HandReturns ==
  /\ hand.pc = "responded"
  /\ hand' = IdleHand
  /\ UNCHANGED << sess, rvars, req, lvars, probe >>

\* the handler has responded and returns: its locals are gone and the route
\* waits for the next request
HandlerReturns ==
  /\ req.pc = "responded"
  /\ req' = IdleReq
  /\ UNCHANGED << rvars, lvars, xvars >>

Init ==
  /\ env \in { e \in [EnvKeys -> {Undefined} \cup {OverrideUrl[k] : k \in EnvKeys}] :
                 \A k \in EnvKeys : e[k] \in {Undefined, OverrideUrl[k]} }
  /\ resolved = [n \in Names |-> Undefined]
  /\ call = [c \in CallIds |-> IdleCall]
  /\ firstReturn = [n \in Names |-> Undefined]
  /\ started = 0
  /\ req = IdleReq
  /\ look = IdleLook
  /\ net = NoCall
  /\ probe = IdleProbe
  /\ sess = NewSession
  /\ hand = IdleHand

Next ==
  \/ \E c \in CallIds, name \in Names : Start(c, name)
  \/ \E c \in CallIds, o \in FetchOutcomes : HeadSettles(c, o)
  \/ \E c \in CallIds, o \in FetchOutcomes : GetSettles(c, o)

Spec == Init /\ [][Next]_vars

\* the /api/games handler alone: it neither calls the resolver nor reads
\* its cache
InitGames ==
  /\ env = [k \in EnvKeys |-> Undefined]
  /\ resolved = [n \in Names |-> Undefined]
  /\ call = [c \in CallIds |-> IdleCall]
  /\ firstReturn = [n \in Names |-> Undefined]
  /\ started = 0
  /\ req = IdleReq
  /\ look = IdleLook
  /\ net = NoCall
  /\ probe = IdleProbe
  /\ sess = NewSession
  /\ hand = IdleHand

NextGames ==
  \/ \E raw \in RawQueries : GamesRequest(raw)
  \/ \E body \in ListBodies : ListSettles(body)
  \/ \E reply \in SortsReplies : SortsSettles(reply)
  \/ \E body \in ListBodies : SortedSettles(body)
  \/ \E reply \in DetailsReplies, u \in UniverseIds : DetailsSettles(reply, u)
  \/ \E body \in ListBodies : UniverseSettles(body)
  \/ HandlerReturns

SpecGames == InitGames /\ [][NextGames]_vars

\* the lookup handlers alone
InitLookup == InitGames

NextLookup ==
  \/ \E route \in Routes, id \in Ids, signedIn \in BOOLEAN :
       LookupRequest(route, id, signedIn)
  \/ \E ok \in BOOLEAN : HeadersArrive(ok)
  \/ ConnectionFails
  \/ TimerFires
  \/ \E v \in PlaceBodies \cup UserBodies \cup ThumbBodies : BodyArrives(v)
  \/ BodyFails
  \/ LookupReturns

SpecLookup == InitLookup /\ [][NextLookup]_vars

\* probeUrl alone
InitProbe == InitGames

NextProbe ==
  \/ \E url \in Urls : ProbeCall(url)
  \/ \E resp \in Responses : ProbeHeadSettles(resp)
  \/ \E resp \in Responses : ProbeGetSettles(resp)
  \/ ProbeReturns

SpecProbe == InitProbe /\ [][NextProbe]_vars

\* the session routes, with the resolveEndpoint calls they make
InitAuth ==
  /\ env \in { e \in [EnvKeys \cup CredKeys -> { Undefined, "set" }] :
                 /\ \A k \in EnvKeys : e[k] = Undefined
                 /\ e["ROBLOX_CLIENT_ID"] = "set" }
  /\ resolved = [n \in Names |-> Undefined]
  /\ call = [c \in CallIds |-> IdleCall]
  /\ firstReturn = [n \in Names |-> Undefined]
  /\ started = 0
  /\ req = IdleReq
  /\ look = IdleLook
  /\ net = NoCall
  /\ probe = IdleProbe
  /\ sess = NewSession
  /\ hand = IdleHand

NextAuth ==
  \/ \E st \in States : AuthRequest(st)
  \/ \E code \in Codes, state \in QueryStates : CallbackRequest(code, state)
  \/ \E o \in FetchOutcomes : HandHead(o)
  \/ \E o \in FetchOutcomes : HandGet(o)
  \/ \E reply \in TokenReplies : TokenResponds(reply)
  \/ \E text \in TokenTexts : TokenTextRead(text)
  \/ Logout
  \/ MeRequest
  \/ \E reply \in UserinfoReplies : UserinfoSettles(reply)
  \/ \E reply \in ThumbReplies : ThumbSettles(reply)
  \/ HandReturns

SpecAuth == InitAuth /\ [][NextAuth]_vars

\* ========================================================================
\* Properties of the resolver (checked under Spec)
\* ========================================================================
\* the override variable documented for each operation (line 85)
OverrideKey ==
  [ authorize |-> "OAUTH_AUTHORIZE_URL",
    token     |-> "OAUTH_TOKEN_URL",
    userinfo  |-> "OAUTH_USERINFO_URL" ]

\* the call that a step starts, if the step starts one
Starts(n) == started' = started + 1 /\ call'[FreeSlot].name = n
Started == call'[FreeSlot]

\* C1: a resolveEndpoint call for an operation whose override variable is
\* set has returned exactly the override value and has issued no probe
\* request, whether the cache was empty or set when it started.
C1_OverrideWins ==
  \A c \in CallIds :
    LET r == call[c] IN
    (r.pc # "idle" /\ r.name \in Ops /\ env[OverrideKey[r.name]] # Undefined)
      => /\ r.pc = "returned"
         /\ r.result = env[OverrideKey[r.name]]
         /\ r.probed = << >>

C1_Witness ==
  \E c \in CallIds :
    /\ call[c].name \in Ops
    /\ env[OverrideKey[call[c].name]] # Undefined
    /\ call[c].pc = "returned"
    /\ call[c].result = env[OverrideKey[call[c].name]]
    /\ resolved[call[c].name] = call[c].result
    /\ started >= 2

\* C2: once some call has returned a URL u for a name, every call for that
\* name that starts afterwards returns u and issues no probe request.
C2_StableAfterReturn ==
  [][ \A n \in Names :
        (Starts(n) /\ firstReturn[n] # Undefined)
          => /\ Started.pc = "returned"
             /\ Started.result = firstReturn[n]
             /\ Started.probed = << >> ]_vars

\* C3: a call that found no override and an empty cache probes the
\* candidates in declared order without skipping or repeating one; when it
\* returns a probed candidate, that candidate is the first one reported
\* reachable and the last one probed.
C3_InOrderFirstReachable ==
  \A c \in CallIds :
    LET r    == call[c]
        list == CandidateList(r.name)
        n    == Len(r.probed)
    IN
    (r.pc \in {"head", "get"} \/ r.via \in {"probe", "fallback"})
      => /\ n \in 1..Len(list)
         /\ r.probed = SubSeq(list, 1, n)
         /\ r.via = "probe" =>
              /\ Len(r.verdicts) = n
              /\ r.verdicts[n] = "true"
              /\ \A j \in 1..(n - 1) : r.verdicts[j] # "true"
              /\ r.result = list[n]

\* only the second candidate is reachable: it is returned and the third is
\* not probed
C3_Witness ==
  \E c \in CallIds :
    /\ call[c].via = "probe"
    /\ call[c].verdicts = << "false", "true" >>
    /\ call[c].result = CandidateList(call[c].name)[2]

\* C4: a call that found the cache empty and probed returns the URL that
\* the first call to return for the same name returned (a call that ran
\* concurrently with it, since the cache was still empty when this one
\* started), and the cache holds that URL.
C4_RaceConverges ==
  \A c \in CallIds :
    ( /\ call[c].pc = "returned"
      /\ call[c].via \in {"probe", "fallback"} )
      => /\ call[c].result = firstReturn[call[c].name]
         /\ resolved[call[c].name] = firstReturn[call[c].name]

\* C5: a cache entry, once set, is never changed to a different value.
C5_WriteOnce ==
  [][ \A n \in Names :
        resolved[n] # Undefined => resolved'[n] = resolved[n] ]_vars

\* C6: a call that probed every candidate of a non-empty list and found
\* none reachable has returned the first candidate; the step that returns
\* it stores it in the cache; and a call that starts while the cache holds
\* a URL (no override set) returns that URL without probing.
C6_FallbackToFirst ==
  /\ [] ( \A c \in CallIds :
            LET r    == call[c]
                list == CandidateList(r.name)
            IN
            ( /\ r.pc # "idle" /\ Len(list) > 0
              /\ Len(r.verdicts) = Len(list)
              /\ \A j \in 1..Len(list) : r.verdicts[j] # "true" )
              => r.pc = "returned" /\ r.result = list[1] )
  /\ [][ \A c \in CallIds :
           LET r    == call'[c]
               list == CandidateList(r.name)
           IN
           ( /\ call[c].pc \in {"head", "get"} /\ r.pc \notin {"head", "get"}
             /\ Len(r.verdicts) = Len(list)
             /\ \A j \in 1..Len(list) : r.verdicts[j] # "true" )
             => resolved'[r.name] = list[1] ]_vars
  /\ [][ \A n \in Ops :
           ( /\ Starts(n) /\ env[OverrideKey[n]] = Undefined
             /\ resolved[n] # Undefined )
             => /\ Started.pc = "returned"
                /\ Started.result = resolved[n]
                /\ Started.probed = << >>
                /\ resolved' = resolved ]_vars

\* no candidate answered: the call has returned the first candidate and the
\* cache holds it
C6_Witness ==
  \E c \in CallIds :
    /\ call[c].via = "fallback"
    /\ call[c].verdicts = << "false", "false", "false" >>
    /\ call[c].result = CandidateList(call[c].name)[1]
    /\ resolved[call[c].name] = call[c].result

\* C7: a call for a name with an empty or missing candidate list and no
\* override configured for it raises the configuration error: it returns
\* no URL and leaves the cache as it was.
C7_EmptyListRaises ==
  [][ \A n \in Names :
        ( /\ Starts(n)
          /\ CandidateList(n) = << >>
          /\ n \in Ops => env[OverrideKey[n]] = Undefined )
          => /\ Started.pc = "threw"
             /\ Started.result = Undefined
             /\ resolved' = resolved ]_vars

\* C8: probeUrl settles with true or false and never with a thrown error;
\* after a candidate counted as not reachable the call is probing the next
\* candidate; and a call has raised an error only if its candidate list is
\* empty.
C8_ProbeFailuresSwallowed ==
  \A c \in CallIds :
    LET r    == call[c]
        list == CandidateList(r.name)
        n    == Len(r.verdicts)
    IN
    /\ \A j \in 1..n : r.verdicts[j] \in {"true", "false"}
    /\ r.pc = "threw" => list = << >>
    /\ ( /\ n > 0 /\ n < Len(list)
         /\ \A j \in 1..n : r.verdicts[j] = "false" )
         => /\ r.pc \in {"head", "get"}
            /\ r.probed = SubSeq(list, 1, n + 1)

\* the HEAD of the last candidate was rejected and its GET failed too; the
\* call did not fail but returned
C8_Witness ==
  \E c \in CallIds :
    /\ call[c].pc = "returned"
    /\ call[c].reqs = << "HEAD", "GET" >>
    /\ call[c].verdicts = << "false", "false", "false" >>

\* ========================================================================
\* Properties of /api/games (checked under SpecGames)
\* ========================================================================
\* C9: when games/list answered with a non-empty array that maps without
\* error, the handler has responded, the response data is exactly that
\* array's normalisation and games/list is the only upstream call made;
\* whichever strategy leaves the list non-empty, the handler responds with
\* it in the same step and issues no further call.
C9_FirstNonEmptyWins ==
  /\ [] ( Len(req.listData) > 0
            => /\ req.pc = "responded"
               /\ req.data = MapAll(1, req.listData)
               /\ req.calls = << "games/list" >> )
  /\ [][ ( /\ req.pc \in {"list", "sorted", "universe"}
           /\ req' # req
           /\ Len(req'.games) > 0 )
           => /\ req'.pc = "responded"
              /\ req'.data = req'.games
              /\ req'.calls = req.calls ]_vars

C9_Witness ==
  /\ req.pc = "responded"
  /\ req.calls = << "games/list" >>
  /\ Len(req.listData) = 2
  /\ Len(req.data) = 2

\* the raw query is decimal digits, possibly surrounded by whitespace
NumericQuery(raw) ==
  \E a, b \in 1..Len(raw) :
    /\ a <= b
    /\ \A k \in 1..Len(raw) :
         IF a <= k /\ k <= b THEN raw[k] \in Digits ELSE raw[k] \in Whitespace

\* strategies 1 and 2 are over with this step
SortsOver ==
  \/ req.pc = "sorted" /\ req' # req
  \/ req.pc = "sorts" /\ req' # req /\ req'.pc # "sorted"

\* C10: the place-details call is issued by a step exactly when that step
\* ends strategies 1 and 2 with an empty list and the raw query, trimmed,
\* is non-empty and all decimal digits.
C10_NumericGate ==
  [][ req'.calls = Append(req.calls, "multiget-place-details")
        <=> ( /\ SortsOver
              /\ Len(req'.games) = 0
              /\ NumericQuery(req.raw) ) ]_vars

\* strategy 3 runs for a digit query that had whitespace around it
C10_Witness ==
  /\ req.pc = "details"
  /\ req.raw # req.q

\* the URLs of a candidate list
Candidates(n) ==
  { ENDPOINT_CANDIDATES[n][j] : j \in 1..Len(ENDPOINT_CANDIDATES[n]) }

\* the probe requests a call in flight may still issue: two for each
\* candidate after the current one, and the rest of the current probe
Budget(rec) ==
  2 * (Len(CandidateList(rec.name)) - rec.i)
    + (IF rec.pc = "head" THEN 2 ELSE 1)

\* C20: a resolveEndpoint call probes the candidates of its list in order,
\* each one at most once, and sends a candidate one HEAD and at most one GET
\* after it, so that it has issued at most 2 x |candidates| requests; every
\* step of a call either ends the call or uses up some of the requests it
\* may still issue, so the call ends after at most that many settled
\* requests.
C20_BoundedProbing ==
  /\ [] ( \A n \in DOMAIN ENDPOINT_CANDIDATES :
            Cardinality(Candidates(n)) = Len(ENDPOINT_CANDIDATES[n]) )
  /\ [] ( \A c \in CallIds :
            LET rec  == call[c]
                list == CandidateList(rec.name)
            IN rec.pc # "idle"
                 => /\ rec.i = Len(rec.probed)
                    /\ rec.i <= Len(list)
                    /\ rec.probed = SubSeq(list, 1, rec.i)
                    /\ rec.reqs \in { << >>, << "HEAD" >>, << "HEAD", "GET" >> }
                    /\ Len(rec.verdicts) <= rec.i
                    /\ rec.i > 0
                         => 2 * (rec.i - 1) + Len(rec.reqs) <= 2 * Len(list) )
  /\ [][ \A c \in CallIds :
           ( InFlight(c) /\ call'[c] # call[c] )
             => \/ call'[c].pc \in { "returned", "threw" }
                \/ /\ call'[c].pc \in { "head", "get" }
                   /\ call'[c].name = call[c].name
                   /\ Budget(call'[c]) < Budget(call[c])
                   /\ Budget(call'[c]) >= 1 ]_vars

\* a call has returned after probing its whole list, the last candidate
\* with a HEAD and a GET
C20_Witness ==
  \E c \in CallIds :
    /\ call[c].pc = "returned"
    /\ call[c].i = Len(CandidateList(call[c].name))
    /\ call[c].i = 3
    /\ call[c].reqs = << "HEAD", "GET" >>

\* ========================================================================
\* Properties of the /api/games handler (checked under SpecGames)
\* ========================================================================
\* the lines the handler has logged
Logged == { req.log[j] : j \in 1..Len(req.log) }

\* C11: every response of /api/games has the success status and no error
\* field, whatever the upstream calls did; when no strategy was used (each
\* one failed, was empty or was not applicable) its record list is empty.
C11_EmptySuccessOnFailure ==
  req.pc = "responded"
    => /\ req.status = 200
       /\ req.error = Undefined
       /\ (\A k \in 1..3 : UsedLine[k] \notin Logged) => req.data = << >>

\* all three strategies were tried and each one threw
C11_Witness ==
  /\ req.pc = "responded"
  /\ req.log = FailedLine
  /\ Len(req.calls) = 5
  /\ req.status = 200
  /\ req.data = << >>

\* C12: a step that ends strategy 1 with an empty list (its call threw on a
\* non-success status or an unparsable body, or its body had no usable
\* array) issues the sorts call of strategy 2; a step that ends strategy 2
\* with an empty list, at its first or at its second call, issues the
\* place-details call of strategy 3 when the query is all digits.
C12_FailedStrategyFallsThrough ==
  [][ /\ ( /\ req.pc = "list"
           /\ req' # req
           /\ Len(req'.games) = 0 )
          => /\ req'.pc = "sorts"
             /\ req'.calls = Append(req.calls, "games/sorts")
      /\ ( /\ req.pc = "list"
           /\ req'.log = Append(req.log, FailedLine[1]) )
          => req'.pc = "sorts"
      /\ ( /\ SortsOver
           /\ Len(req'.games) = 0
           /\ DigitsOnly(req.q) )
          => /\ req'.pc = "details"
             /\ req'.calls = Append(req.calls, "multiget-place-details") ]_vars

\* strategy 1 threw, the second call of strategy 2 threw, and strategy 3
\* has been entered
C12_Witness ==
  /\ req.pc = "details"
  /\ req.log = << FailedLine[1], FailedLine[2] >>
  /\ req.calls = << "games/list", "games/sorts", "games?sortToken",
                    "multiget-place-details" >>

\* C13: every record of a response has an identifier: no record with a
\* missing or falsy id is returned.
C13_IdentifierPopulated ==
  req.pc = "responded"
    => \A j \in 1..Len(req.data) : ~Falsy(req.data[j].id)

\* the value of the first key of aliases that g has, else the default
RECURSIVE FirstPresent(_, _, _)
FirstPresent(g, aliases, default) ==
  IF aliases = << >> THEN default
  ELSE IF Head(aliases) \in DOMAIN g THEN g[Head(aliases)]
  ELSE FirstPresent(g, Tail(aliases), default)

\* C14: each field of a record mapped by strategy 1 is the value of the
\* first alias the upstream item has, in the order of the map, a 0 or an
\* empty string included; the default is used only when no alias is there.
C14_FirstPresentAliasWins ==
  ( req.pc = "responded" /\ Len(req.listData) > 0 )
    => \A j \in 1..Len(req.data) :
         LET g == req.listData[j]
             rec == req.data[j]
         IN /\ rec.id = FirstPresent(g, << "id", "universeId", "placeId",
                                           "assetId" >>, Undef)
            /\ rec.name = FirstPresent(g, << "name", "title" >>, Str(""))
            /\ rec.thumbnail = FirstPresent(g, << "iconUrl", "thumbnailUrl" >>,
                                            Null)
            /\ rec.playing = FirstPresent(g, << "playing", "currentPlayers" >>,
                                          Null)
            /\ rec.visits = FirstPresent(g, << "visits" >>, Null)

\* the six fields of a record
CanonicalFields == { "id", "name", "creator", "thumbnail", "playing", "visits" }

\* C15: every field of every record of a response has a value: none is
\* undefined (an undefined field is left out of the JSON of the response).
C15_AllFieldsEmitted ==
  req.pc = "responded"
    => \A j \in 1..Len(req.data) :
         \A f \in CanonicalFields : req.data[j][f] # Undef

\* the upstream item has no thumbnail field
NoThumbnail(g) == "iconUrl" \notin DOMAIN g /\ "thumbnailUrl" \notin DOMAIN g

\* C16: whichever strategy mapped an array, there is one record per item
\* and the record of an item without thumbnail field has thumbnail null;
\* the only entries a map callback has thrown on are null entries, never an
\* item that merely lacks the field.
C16_MissingThumbnailIsNull ==
  /\ req.srcBy > 0
       => /\ Len(req.games) = Len(req.src)
          /\ \A j \in 1..Len(req.src) :
               NoThumbnail(req.src[j]) => req.games[j].thumbnail = Null
  /\ \A g \in req.threwOn : IsNullItem(g)

\* strategy 2 mapped an array with an item without thumbnail field
C16_Witness ==
  /\ req.pc = "responded"
  /\ req.srcBy = 2
  /\ \E j \in 1..Len(req.src) : NoThumbnail(req.src[j])
  /\ Len(req.data) = Len(req.src)

\* the record of the example: game "Test" of universe 9
ExampleRecord ==
  [ id |-> Num(9), name |-> Str("Test"), creator |-> Str("Unknown"),
    thumbnail |-> Null, playing |-> Null, visits |-> Null ]

\* C17: a response built by strategy 3 answers an all-digit query after
\* empty strategies 1 and 2; the place-details call came first and the
\* games call for the universe it resolved came last; there is one record
\* per listed game, with its id and name, creator "Unknown" when the game
\* has no creator, and null thumbnail, playing, visits when it has none;
\* the single game { id: 9, name: "Test" } gives the record of the example.
C17_NumericIdStrategy ==
  ( req.pc = "responded" /\ req.srcBy = 3 )
    => /\ DigitsOnly(req.q)
       /\ req.universe \in UniverseIds
       /\ Len(req.calls) >= 4
       /\ SubSeq(req.calls, Len(req.calls) - 1, Len(req.calls))
            = << "multiget-place-details", "games?universeIds" >>
       /\ UsedLine[1] \notin Logged /\ UsedLine[2] \notin Logged
       /\ Len(req.data) = Len(req.src)
       /\ \A j \in 1..Len(req.src) :
            LET g == req.src[j]
                rec == req.data[j]
            IN /\ rec.id = Get(g, "id")
               /\ rec.name = Get(g, "name")
               /\ "creator" \notin DOMAIN g => rec.creator = Str("Unknown")
               /\ NoThumbnail(g) => rec.thumbnail = Null
               /\ "playing" \notin DOMAIN g => rec.playing = Null
               /\ "visits" \notin DOMAIN g => rec.visits = Null
       /\ req.src = << [ id |-> Num(9), name |-> Str("Test") ] >>
            => req.data = << ExampleRecord >>

\* the example: a digit query, universe 9, one game "Test"
C17_Witness ==
  /\ req.pc = "responded"
  /\ req.srcBy = 3
  /\ req.q = << "1", "7" >>
  /\ req.universe = 9
  /\ req.src = << [ id |-> Num(9), name |-> Str("Test") ] >>
  /\ req.data = << ExampleRecord >>

\* ========================================================================
\* Properties of the lookups and of their upstream calls (checked under
\* SpecLookup)
\* ========================================================================
\* the field of the response that the enrichment call fills
EnrichedField == [ game |-> "thumbnail", user |-> "headshot" ]

\* C18: a game or user lookup whose primary call gave a record and whose
\* enrichment call failed has responded with the success status and the
\* record, its thumbnail field null.
C18_EnrichmentFailureTolerated ==
  ( /\ look.pc = "responded"
    /\ look.route \in { "game", "user" }
    /\ look.info # Null
    /\ look.enrich = "failed" )
    => /\ look.status = 200
       /\ Prop(look.body, EnrichedField[look.route]) = Null

\* C19: an upstream call that is pending, before its headers or while its
\* body is read, has its timer armed.
C19_TimeoutArmedWhilePending ==
  net.phase \in { "connecting", "body" } => net.timer

\* the body of multiget-place-details has no first entry
NoEntry(pd) == pd.t # "array" \/ Len(pd.a) = 0

\* C21: the game lookup has answered 404 exactly when its place-details call
\* returned a body without an entry; the 404 response carries the error only
\* and place-details is the only call the handler has issued.
C21_NotFoundIffNoEntry ==
  ( look.pc = "responded" /\ look.route = "game" )
    => /\ look.status = 404 <=> ( look.pd # Undef /\ NoEntry(look.pd) )
       /\ look.status = 404
            => /\ look.calls = << "multiget-place-details" >>
               /\ look.body = Obj([ error |-> Str("game not found") ])
               /\ look.info = Undef

\* place-details answered with an empty array
C21_Witness ==
  /\ look.pc = "responded"
  /\ look.route = "game"
  /\ look.pd = Arr(<< >>)
  /\ look.status = 404

\* ========================================================================
\* Properties of probeUrl (checked under SpecProbe)
\* ========================================================================
\* a response with a status below 500 was received
Answered(resp) == resp.ok /\ resp.status < 500

\* C22: probeUrl has reported the candidate reachable if and only if one of
\* its requests was answered with a status below 500 (2xx, 3xx, 4xx); with
\* 5xx answers or no answer only, it has reported it not reachable.
C22_ReachableIffBelow500 ==
  probe.pc = "done"
    => /\ probe.verdict \in { "true", "false" }
       /\ probe.verdict = "true"
            <=> \E j \in 1..Len(probe.resp) : Answered(probe.resp[j])

\* a 404 answer to the HEAD makes the candidate reachable
C22_Witness ==
  /\ probe.pc = "done"
  /\ probe.resp = << Status(404) >>
  /\ probe.verdict = "true"

\* C23: probeUrl sends HEAD first; it sends GET, once, exactly when the HEAD
\* request was rejected without a response; a GET answered below 500 then
\* makes the candidate reachable; after a HEAD that was answered, no GET is
\* sent.
C23_HeadThenOneGet ==
  /\ [] ( probe.pc # "idle"
            => /\ probe.reqs \in { << "HEAD" >>, << "HEAD", "GET" >> }
               /\ Len(probe.resp) <= Len(probe.reqs)
               /\ probe.pc = "head" => probe.reqs = << "HEAD" >>
               /\ probe.pc \in { "get", "done" }
                    => ( probe.reqs = << "HEAD", "GET" >>
                           <=> probe.resp[1] = Rejected )
               /\ ( probe.pc = "done" /\ Len(probe.resp) = 2
                      /\ Answered(probe.resp[2]) )
                    => probe.verdict = "true"
               /\ ( probe.pc = "done" /\ probe.resp[1] # Rejected )
                    => Len(probe.resp) = 1 )
  /\ [][ probe'.reqs # probe.reqs
           => \/ probe'.reqs = << >>
              \/ probe.pc = "idle" /\ probe'.reqs = << "HEAD" >>
              \/ probe.pc = "head" /\ probe'.reqs = << "HEAD", "GET" >> ]_vars

\* the HEAD was rejected and the GET was answered with 200
C23_Witness ==
  /\ probe.pc = "done"
  /\ probe.reqs = << "HEAD", "GET" >>
  /\ probe.resp = << Rejected, Status(200) >>
  /\ probe.verdict = "true"

\* ========================================================================
\* Frame and range of the resolution cache (checked under Spec)
\* ========================================================================
\* the step is one of a resolveEndpoint call for name n
StepOf(n) ==
  \/ Starts(n)
  \/ \E c \in CallIds :
       InFlight(c) /\ call[c].name = n /\ call'[c] # call[c]

\* C24: a step changes the cache slot of a name only if it is a step of a
\* resolveEndpoint call for that name, and it changes at most one slot; the
\* override variables are left as they are. (ENDPOINT_CANDIDATES is never
\* assigned by the code and is a constant here.)
C24_SingleSlotFrame ==
  [][ /\ resolved' # resolved
           => /\ \A n \in Names : resolved'[n] # resolved[n] => StepOf(n)
              /\ Cardinality({ n \in Names : resolved'[n] # resolved[n] }) = 1
      /\ env' = env ]_vars

\* a call for token has filled its slot by fallback, the other slots are
\* still empty
C24_Witness ==
  \E c \in CallIds :
    /\ call[c].pc = "returned"
    /\ call[c].name = "token"
    /\ call[c].via = "fallback"
    /\ resolved["token"] = ENDPOINT_CANDIDATES["token"][1]
    /\ \A n \in Names \ { "token" } : resolved[n] = Undefined

\* the URLs resolveEndpoint(n) may give: the override configured for n and
\* the candidates of n
OwnUrls(n) ==
  ( IF n \in DOMAIN OverrideKey /\ Truthy(env[OverrideKey[n]])
    THEN { env[OverrideKey[n]] } ELSE { } )
    \cup ( IF n \in DOMAIN ENDPOINT_CANDIDATES THEN Candidates(n) ELSE { } )

C26_TokenOnlyAfterAuth ==
  ( hand.route = "callback" /\ hand.pc = "responded" ) =>
    /\ hand.stored =>
         /\ ~Falsy(sess.oauth_state)
         /\ ~Falsy(hand.code)
         /\ hand.state = sess.oauth_state
         /\ hand.ok
    /\ Falsy(sess.oauth_state) =>
         ( hand.status = 400 /\ hand.calls = << >> )

C28_FallbackOrder ==
  ( hand.route = "me" /\ hand.pc = "responded" /\ hand.status # 401 ) =>
    /\ hand.hadToken <=> hand.first # "skipped"
    /\ hand.hadToken =>
         ( Len(hand.calls) > 0 /\ hand.calls[1] = "resolveEndpoint" )
    /\ hand.dec # "skipped" => hand.first # "ok"
    /\ hand.status \in { 200, 500 }
    /\ hand.status = 500 <=> ( hand.first # "ok" /\ hand.dec # "ok" )
    /\ hand.status = 500 =>
         hand.body = JsonError("Failed to retrieve user info")

\* the call of the userinfo endpoint failed and the decoded id_token
\* answered the request
C28_Witness ==
  /\ hand.route = "me" /\ hand.pc = "responded"
  /\ hand.first = "failed" /\ hand.dec = "ok" /\ hand.status = 200

====
